---------------------------- MODULE Spec2Model ----------------------------
(***************************************************************************)
(* The bouncing-layer animation of src/unnamed/part_001: the click handler *)
(* startAnimation, the update step moveLayer driven by                     *)
(* requestAnimationFrame, and the window's resize listener.                *)
(*                                                                         *)
(* JavaScript handlers run to completion, so each handler is one action,   *)
(* with every call it makes (startAnimation and the resize listener both   *)
(* call moveLayer synchronously) inside it.                                *)
(*                                                                         *)
(* The page's markup and stylesheet are not among the sources.  The layer  *)
(* is taken to be positioned against the viewport's origin with no border  *)
(* or padding, so getBoundingClientRect() returns the left, top, width and *)
(* height last written to layer.style.                                     *)
(***************************************************************************)
EXTENDS Integers, Sequences, FiniteSets, TLC

(***************************************************************************)
(* Program constants.                                                      *)
(***************************************************************************)
Speed == 3
DefaultWidth == 150
DefaultHeight == 100
DefaultOpacity == 1
StartLeft == 0
StartTop == 150

(***************************************************************************)
(* Bounds of the model: the window sizes the resize event moves between.   *)
(***************************************************************************)
NarrowW == 150
WideW == 162
LowH == 90
TallH == 420

Viewports == {NarrowW, WideW} \X {LowH, TallH}

(***************************************************************************)
(* The texts the user may have typed in the form when clicking start, as   *)
(* sequences of characters over digits, sign, point, blank and a letter.   *)
(***************************************************************************)
WidthInputs == { <<>>, <<"-", "5">>, <<"1", "4", "4", "p">> }
HeightInputs == { <<"p">>, <<" ", "8", "0">> }
OpacityInputs == { <<>>, <<"0">>, <<"0", ".", "5", "0">>, <<"1", ".", "5">> }

(***************************************************************************)
(* JavaScript numbers as far as the handler needs them: NaN, or the exact  *)
(* decimal num / den with den a power of ten and no trailing zero.         *)
(***************************************************************************)
NaN == [nan |-> TRUE, num |-> 0, den |-> 1]
Num(n) == [nan |-> FALSE, num |-> n, den |-> 1]

DigitChars == {"0", "1", "2", "3", "4", "5", "6", "7", "8", "9"}
DigitSeq == <<"0", "1", "2", "3", "4", "5", "6", "7", "8", "9">>
DigitVal(c) == (CHOOSE i \in 1..10 : DigitSeq[i] = c) - 1

RECURSIVE SkipBlanks(_)
SkipBlanks(s) ==
  IF s # <<>> /\ Head(s) = " " THEN SkipBlanks(Tail(s)) ELSE s

RECURSIVE DigitsPrefix(_)
DigitsPrefix(s) ==
  IF s = <<>> \/ Head(s) \notin DigitChars
    THEN <<>>
    ELSE <<Head(s)>> \o DigitsPrefix(Tail(s))

RECURSIVE DecimalValue(_)
DecimalValue(ds) ==
  IF ds = <<>> THEN 0
  ELSE 10 * DecimalValue(SubSeq(ds, 1, Len(ds) - 1)) + DigitVal(ds[Len(ds)])

RECURSIVE Pow10(_)
Pow10(k) == IF k = 0 THEN 1 ELSE 10 * Pow10(k - 1)

RECURSIVE Normalise(_)
Normalise(v) ==
  IF v.den > 1 /\ v.num % 10 = 0
    THEN Normalise([v EXCEPT !.num = v.num \div 10, !.den = v.den \div 10])
    ELSE v

SignOf(s) == IF s # <<>> /\ Head(s) = "-" THEN -1 ELSE 1
DropSign(s) == IF s # <<>> /\ Head(s) \in {"-", "+"} THEN Tail(s) ELSE s

(* parseInt(text): blanks, an optional sign, then the longest run of digits *)
parseInt(text) ==
  LET t  == SkipBlanks(text)
      ds == DigitsPrefix(DropSign(t))
  IN  IF ds = <<>> THEN NaN ELSE Num(SignOf(t) * DecimalValue(ds))

(* parseFloat(text): blanks, an optional sign, digits, an optional point   *)
(* followed by digits; at least one digit is needed.                       *)
parseFloat(text) ==
  LET t    == SkipBlanks(text)
      u    == DropSign(t)
      ip   == DigitsPrefix(u)
      rest == SubSeq(u, Len(ip) + 1, Len(u))
      fp   == IF rest # <<>> /\ Head(rest) = "."
                THEN DigitsPrefix(Tail(rest)) ELSE <<>>
  IN  IF ip = <<>> /\ fp = <<>> THEN NaN
      ELSE Normalise([nan |-> FALSE,
                      num |-> SignOf(t) * (DecimalValue(ip) * Pow10(Len(fp))
                                           + DecimalValue(fp)),
                      den |-> Pow10(Len(fp))])

(* v || d : d when v is NaN or zero *)
OrDefault(v, d) == IF v.nan \/ v.num = 0 THEN Num(d) ELSE v

(* layer.style.width = n + "px": a negative length is not a valid value of *)
(* the property and the assignment is then ignored.                        *)
SetLength(old, n) == IF n >= 0 THEN n ELSE old

VARIABLES
  left, top,            \* layer.style.left / top, in px
  layerW, layerH,       \* layer.style.width / height, in px
  opacity,              \* layer.style.opacity
  dx, dy, goingDown,    \* the globals of the animation
  animationId,          \* handle of the last request, 0 while undefined
  pending,              \* handles of the frame callbacks not yet run
  winW, winH,           \* window.innerWidth / innerHeight
  widthInput, heightInput, opacityInput,  \* the form as read by the last start
  lastOp,               \* the handler that ran last
  toggles,              \* consecutive update steps that toggled goingDown (0..2)
  starts                \* consecutive clicks on startButton (0..2)

vars == <<left, top, layerW, layerH, opacity, dx, dy, goingDown, animationId,
          pending, winW, winH, widthInput, heightInput, opacityInput,
          lastOp, toggles, starts>>

(***************************************************************************)
(* The console program of src/OOP_JAVA/untitled/src/Main.java is a         *)
(* separate program: sortCall holds the activation of table_sort2 (its     *)
(* parameter, locals and outcome) and stays NoCall while the page runs.    *)
(***************************************************************************)
VARIABLE sortCall

NoCall == [pc |-> "none"]


(***************************************************************************)
(* The scheduler of frame callbacks.  Handles are only ever compared for   *)
(* identity, so a new request gets the least handle that is neither        *)
(* pending nor still held in animationId; 0 (undefined) is never a handle. *)
(***************************************************************************)
cancelNothing(p, id) == p
cancelAnimationFrame(p, id) == p \ {id}

requestAnimationFrame(p, id) ==
  CHOOSE n \in 1..(Cardinality(p) + 2) :
    /\ n \notin p \cup {id}
    /\ \A m \in 1..(n - 1) : m \in p \cup {id}

(***************************************************************************)
(* moveLayer, lines 43-61: the new position, velocity and phase, from the  *)
(* layer's rectangle (x0, y0, w, h), the globals and the window's size.    *)
(***************************************************************************)
HitsRight(x, w, vx, W) == vx > 0 /\ x + w >= W
HitsLeft(x, vx) == vx < 0 /\ x <= 0
Reflects(x, w, vx, W) == HitsRight(x, w, vx, W) \/ HitsLeft(x, vx)

VerticalShiftDown(gd, h) == h
VerticalShift(gd, h) == IF gd THEN h ELSE -h

HitsBottom(y, h, gd, H) == gd /\ y + h >= H
HitsTop(y, gd) == ~gd /\ y <= 0

(* lines 46-52: the velocity and the shifted y after the wall test at x *)
NextDx(x, w, vx, W) == IF Reflects(x, w, vx, W) THEN -vx ELSE vx
ShiftedY(x, y, w, h, vx, gd, W) ==
  IF Reflects(x, w, vx, W) THEN y + VerticalShift(gd, h) ELSE y

(* lines 54-61: the phase and the clamped y after the vertical test at y *)
NextGoingDownBottomOnly(y, h, gd, H) ==
  IF HitsBottom(y, h, gd, H) THEN FALSE ELSE gd
NextGoingDown(y, h, gd, H) ==
  IF HitsBottom(y, h, gd, H) THEN FALSE
  ELSE IF HitsTop(y, gd) THEN TRUE ELSE gd
ClampedYTopOnly(y, h, gd, H) == IF HitsTop(y, gd) THEN 0 ELSE y
ClampedY(y, h, gd, H) ==
  IF HitsBottom(y, h, gd, H) THEN H - h
  ELSE IF HitsTop(y, gd) THEN 0 ELSE y

StepHoldX(x0, y0, w, h, vx, vy, gd, W, H) ==
  LET x  == x0 + vx
      y  == ShiftedY(x, y0 + vy, w, h, vx, gd, W)
  IN  [left |-> IF Reflects(x, w, vx, W) THEN x0 ELSE x,
       top |-> ClampedY(y, h, gd, H),
       dx |-> NextDx(x, w, vx, W),
       goingDown |-> NextGoingDown(y, h, gd, H)]

Step(x0, y0, w, h, vx, vy, gd, W, H) ==
  LET x  == x0 + vx
      y  == ShiftedY(x, y0 + vy, w, h, vx, gd, W)
  IN  [left |-> x,
       top |-> ClampedY(y, h, gd, H),
       dx |-> NextDx(x, w, vx, W),
       goingDown |-> NextGoingDown(y, h, gd, H)]

(* One call of moveLayer: the step, its publication to layer.style, and    *)
(* the request for the next frame (line 66).  p is the callback list and   *)
(* n the count of consecutive toggling steps as the call finds them.       *)
moveLayer(x0, y0, w, h, vx, vy, gd, W, H, p, n) ==
  LET s == Step(x0, y0, w, h, vx, vy, gd, W, H)
      id == requestAnimationFrame(p, animationId)
  IN  /\ left' = s.left
      /\ top' = s.top
      /\ dx' = s.dx
      /\ goingDown' = s.goingDown
      /\ animationId' = id
      /\ pending' = p \cup {id}
      /\ toggles' = IF s.goingDown # gd THEN (IF n < 2 THEN n + 1 ELSE 2) ELSE 0

(***************************************************************************)
(* The page as loaded: nothing scheduled, animationId undefined.  The      *)
(* layer's initial rectangle comes from the stylesheet; it is taken to be  *)
(* the default size at the start position.                                 *)
(***************************************************************************)
Init ==
  /\ left = StartLeft
  /\ top = StartTop
  /\ layerW = DefaultWidth
  /\ layerH = DefaultHeight
  /\ opacity = Num(DefaultOpacity)
  /\ dx = Speed
  /\ dy = 0
  /\ goingDown = TRUE
  /\ animationId = 0
  /\ pending = {}
  /\ \E vp \in Viewports : winW = vp[1] /\ winH = vp[2]
  /\ widthInput = <<>>
  /\ heightInput = <<>>
  /\ opacityInput = <<>>
  /\ lastOp = "init"
  /\ toggles = 0
  /\ starts = 0

Abs(n) == IF n < 0 THEN -n ELSE n

(* Math.abs, and the reset of the globals in lines 25 and 27 *)
Identity(n) == n
MathAbs(n) == IF n < 0 THEN -n ELSE n
resetDx == MathAbs(dx)
keptGoingDown == goingDown
resetGoingDown == TRUE

(* Lines 11, 12 and 14: what startAnimation makes of each text of the form *)
width == [text \in WidthInputs |-> OrDefault(parseInt(text), DefaultWidth).num]
height == [text \in HeightInputs |-> OrDefault(parseInt(text), DefaultHeight).num]
opacityOf == [text \in OpacityInputs |-> OrDefault(parseFloat(text), DefaultOpacity)]

(* Click on startButton with wi, hi, oi typed in the form. *)
startAnimation(wi, hi, oi) ==
  LET w == SetLength(layerW, width[wi])
      h == SetLength(layerH, height[hi])
  IN  /\ widthInput' = wi
      /\ heightInput' = hi
      /\ opacityInput' = oi
      /\ layerW' = w
      /\ layerH' = h
      /\ opacity' = opacityOf[oi]
      /\ dy' = 0
      /\ moveLayer(StartLeft, StartTop, w, h, resetDx, 0, resetGoingDown,
                   winW, winH,
                   cancelAnimationFrame(pending, animationId), 0)
      /\ lastOp' = "start"
      /\ starts' = IF starts < 2 THEN starts + 1 ELSE 2
      /\ UNCHANGED <<winW, winH>>

Start ==
  \E wi \in WidthInputs, hi \in HeightInputs, oi \in OpacityInputs :
    startAnimation(wi, hi, oi)

(* A frame tick: the browser takes a pending callback off its list and     *)
(* runs it.                                                                *)
Frame ==
  \E id \in pending :
    /\ moveLayer(left, top, layerW, layerH, dx, dy, goingDown, winW, winH,
                 pending \ {id}, toggles)
    /\ lastOp' = "frame"
    /\ starts' = 0
    /\ UNCHANGED <<layerW, layerH, opacity, dy, winW, winH,
                   widthInput, heightInput, opacityInput>>

resizeListenerNoCancel(W, H) ==
  /\ winW' = W
  /\ winH' = H
  /\ IF animationId # 0
       THEN moveLayer(left, top, layerW, layerH, dx, dy, goingDown, W, H,
                      pending, toggles)
       ELSE UNCHANGED <<left, top, dx, goingDown, animationId, pending, toggles>>
  /\ lastOp' = "resize"
  /\ starts' = 0
  /\ UNCHANGED <<layerW, layerH, opacity, dy,
                 widthInput, heightInput, opacityInput>>

resizeListenerCancelOnly(W, H) ==
  /\ winW' = W
  /\ winH' = H
  /\ pending' = cancelAnimationFrame(pending, animationId)
  /\ lastOp' = "resize"
  /\ starts' = 0
  /\ UNCHANGED <<left, top, dx, goingDown, animationId, toggles,
                 layerW, layerH, opacity, dy,
                 widthInput, heightInput, opacityInput>>

(* The window is resized to W x H and the resize listener runs. *)
resizeListener(W, H) ==
  /\ winW' = W
  /\ winH' = H
  /\ IF animationId # 0
       THEN moveLayer(left, top, layerW, layerH, dx, dy, goingDown, W, H,
                      cancelAnimationFrame(pending, animationId), toggles)
       ELSE UNCHANGED <<left, top, dx, goingDown, animationId, pending, toggles>>
  /\ lastOp' = "resize"
  /\ starts' = 0
  /\ UNCHANGED <<layerW, layerH, opacity, dy,
                 widthInput, heightInput, opacityInput>>

Resize ==
  \E vp \in Viewports :
    /\ vp # <<winW, winH>>
    /\ resizeListener(vp[1], vp[2])

Next ==
  \/ Start /\ UNCHANGED sortCall
  \/ Frame /\ UNCHANGED sortCall
  \/ Resize /\ UNCHANGED sortCall

(* the page as loaded, Main.java not being run *)
InitPage == Init /\ sortCall = NoCall

Spec == InitPage /\ [][Next]_vars

(***************************************************************************)
(* One run left to itself: a single click on start in a window that is     *)
(* not resized, then frame ticks.  The browser runs a pending frame        *)
(* callback at its next repaint, so a callback that stays pending is       *)
(* eventually run.                                                         *)
(***************************************************************************)
FirstStart == ~(animationId # 0) /\ Start

NextSweep ==
  \/ FirstStart /\ UNCHANGED sortCall
  \/ Frame /\ UNCHANGED sortCall

SpecSweep == InitPage /\ [][NextSweep]_vars /\ WF_vars(Frame)

(***************************************************************************)
(* Main.java: table_sort2, a selection sort that files each minimum into   *)
(* the array of negatives or of the others.  Arrays are sequences, read    *)
(* and written at Java's index k as element k + 1; the elements are only   *)
(* compared and copied, so their 32-bit width plays no part.               *)
(***************************************************************************)
MaxLen == 3
MaxAbs == 2

(* the table of main, line 45 *)
MainTable == <<3, -1, 4, -5, 2>>

Tables ==
  {MainTable} \cup UNION { [1..n -> (-MaxAbs)..MaxAbs] : n \in 0..MaxLen }

(* new int[n]: n zeros; a negative n throws *)
NewIntArray(n) == [k \in 1..n |-> 0]

(* Arrays.copyOf(a, n) for n <= a.length *)
CopyOf(a, n) == SubSeq(a, 1, n)

(* lines 21-26: the index of the first least element of table[i..] *)
RECURSIVE MinIndexFrom(_, _, _)
MinIndexFrom(table, min_index, j) ==
  IF j >= Len(table) THEN min_index
  ELSE MinIndexFrom(table,
                    IF table[min_index + 1] > table[j + 1] THEN j ELSE min_index,
                    j + 1)

(* lines 27-29: the swap of table[min_index] and table[i] *)
Swap(table, i, min_index) ==
  [table EXCEPT ![min_index + 1] = table[i + 1], ![i + 1] = table[min_index + 1]]

(* main calls table_sort2(table): lines 16-19 *)
SortEnter ==
  /\ sortCall.pc = "called"
  /\ sortCall' =
       IF Len(sortCall.table) - 1 < 0
         THEN [sortCall EXCEPT !.pc = "thrown",
                               !.exception = "NegativeArraySizeException"]
         ELSE [sortCall EXCEPT !.pc = "loop",
                               !.negative = NewIntArray(Len(sortCall.table) - 1),
                               !.neg_index = 0,
                               !.positive = NewIntArray(Len(sortCall.table) - 1),
                               !.pos_index = 0,
                               !.i = 0]

(* one pass of the outer loop, lines 20-37 *)
SortIteration ==
  /\ sortCall.pc = "loop"
  /\ sortCall.i < Len(sortCall.table)
  /\ LET i     == sortCall.i
         t     == Swap(sortCall.table, i, MinIndexFrom(sortCall.table, i, i))
         oob   == [sortCall EXCEPT !.table = t, !.pc = "thrown",
                     !.exception = "ArrayIndexOutOfBoundsException"]
     IN  sortCall' =
           IF t[i + 1] < 0
             THEN IF sortCall.neg_index >= Len(sortCall.negative) THEN oob
                  ELSE [sortCall EXCEPT
                          !.table = t,
                          !.negative[sortCall.neg_index + 1] = t[i + 1],
                          !.neg_index = sortCall.neg_index + 1,
                          !.i = i + 1]
             ELSE IF sortCall.pos_index >= Len(sortCall.positive) THEN oob
                  ELSE [sortCall EXCEPT
                          !.table = t,
                          !.positive[sortCall.pos_index + 1] = t[i + 1],
                          !.pos_index = sortCall.pos_index + 1,
                          !.i = i + 1]

(* lines 38-41: the loop is over, the two filled prefixes are returned *)
SortReturn ==
  /\ sortCall.pc = "loop"
  /\ sortCall.i >= Len(sortCall.table)
  /\ sortCall' =
       [sortCall EXCEPT
          !.pc = "returned",
          !.result = << CopyOf(sortCall.negative, sortCall.neg_index),
                        CopyOf(sortCall.positive, sortCall.pos_index) >>]

InitSort ==
  /\ Init
  /\ \E t \in Tables :
       sortCall = [pc |-> "called", input |-> t, table |-> t,
                   negative |-> <<>>, neg_index |-> 0,
                   positive |-> <<>>, pos_index |-> 0,
                   i |-> 0, result |-> <<>>, exception |-> "none"]

NextSort ==
  \/ SortEnter /\ UNCHANGED vars
  \/ SortIteration /\ UNCHANGED vars
  \/ SortReturn /\ UNCHANGED vars

SpecSort == InitSort /\ [][NextSort]_<<vars, sortCall>>


(***************************************************************************)
(* Vocabulary of the properties.                                           *)
(***************************************************************************)
Running == animationId # 0

(* The state is the one an execution of moveLayer has just published. *)
Stepped == lastOp \in {"start", "frame"} \/ (lastOp = "resize" /\ Running)

(* The step being taken executes moveLayer. *)
Stepping == lastOp' \in {"start", "frame"} \/ (lastOp' = "resize" /\ Running)

(* What that execution of moveLayer reads: the reset state inside          *)
(* startAnimation, the current state otherwise; the size and the window    *)
(* are the ones the step leaves (a start sets the size, a resize the       *)
(* window, before the call).                                               *)
PreLeft == IF lastOp' = "start" THEN StartLeft ELSE left
PreTop == IF lastOp' = "start" THEN StartTop ELSE top
PreDx == IF lastOp' = "start" THEN Speed ELSE dx
PreGoingDown == IF lastOp' = "start" THEN TRUE ELSE goingDown

Degenerate == winW <= layerW \/ winH <= layerH

----------------------------------------------------------------------------
(* C1: after every execution of moveLayer, whatever events preceded it and *)
(* whatever the window's size, 0 <= y <= winH - height.                    *)
C1_VerticalBound == Stepped => 0 <= top /\ top <= winH - layerH

----------------------------------------------------------------------------
(* C2: at most one frame callback is pending in every reachable state, it  *)
(* is the one animationId names, and right after a resize while running    *)
(* exactly one is pending.                                                 *)
C2_OnePending ==
  /\ Cardinality(pending) <= 1
  /\ pending \subseteq {animationId}
  /\ (lastOp = "resize" /\ Running) => Cardinality(pending) = 1

C2_Witness ==
  lastOp = "resize" /\ Running /\ Cardinality(pending) = 1 /\ animationId = 2

----------------------------------------------------------------------------
(* C3: in any execution of moveLayer, goingDown changes from TRUE to FALSE *)
(* only if the published y is winH - height and from FALSE to TRUE only if *)
(* the published y is 0; it is always a boolean.                           *)
C3_PhaseToggle ==
  [][Stepping =>
       /\ goingDown' \in BOOLEAN
       /\ (PreGoingDown /\ ~goingDown') => top' = winH' - layerH'
       /\ (~PreGoingDown /\ goingDown') => top' = 0]_vars

(* a frame has just turned the phase at the bottom of a window taller than *)
(* the layer                                                               *)
C3_Witness ==
  /\ lastOp = "frame" /\ toggles = 1 /\ ~goingDown
  /\ winH > layerH /\ top = winH - layerH

----------------------------------------------------------------------------
(* C4: after every execution of moveLayer x is inside the window up to the *)
(* one-frame overshoot, -|dx| <= x and x + width <= winW + |dx|; when the  *)
(* execution did not reflect, 0 <= x and x + width <= winW.                *)
C4_HorizontalBound ==
  [][Stepping =>
       /\ left' >= -Abs(dx')
       /\ left' + layerW' <= winW' + Abs(dx')
       /\ (dx' = PreDx) => (0 <= left' /\ left' + layerW' <= winW')]_vars

----------------------------------------------------------------------------
(* C5: while the window is not larger than the layer in some dimension,    *)
(* the published coordinates are never negative and the phase is not       *)
(* toggled by execution after execution of moveLayer.                      *)
C5_DegenerateBounds ==
  (Stepped /\ Degenerate) => (left >= 0 /\ top >= 0 /\ toggles < 2)

----------------------------------------------------------------------------
(* C6: a click on start directly after a click on start, with the same     *)
(* form and window, leaves the position, velocity, phase and size the      *)
(* first click produced.                                                   *)
C6_StartIdempotent ==
  [][(starts >= 1 /\ starts' = 2 /\ widthInput' = widthInput
        /\ heightInput' = heightInput /\ opacityInput' = opacityInput)
      => (left' = left /\ top' = top /\ dx' = dx /\ goingDown' = goingDown
            /\ layerW' = layerW /\ layerH' = layerH)]_vars

(* two clicks in a row, the step inside each having reflected and turned   *)
(* the phase                                                               *)
C6_Witness == starts = 2 /\ dx = -Speed /\ ~goingDown

----------------------------------------------------------------------------
(* C7 as stated: a resize while running leaves position, velocity, phase   *)
(* and size unchanged.                                                     *)
C7_ResizeFrame ==
  [][(lastOp' = "resize" /\ Running)
      => UNCHANGED <<left, top, dx, goingDown, layerW, layerH>>]_vars

(* C7 amended: a resize while running does not reset the motion state and  *)
(* keeps the size, but executes moveLayer once, synchronously, against the *)
(* new window: x advances by dx, |dx| is kept, y and the phase change only *)
(* by that step's reflection and clamp, and exactly one callback is        *)
(* pending afterwards.  A resize before the first start changes only the   *)
(* window.                                                                 *)
C7_ResizeSteps ==
  [][(lastOp' = "resize") =>
       IF Running
         THEN /\ layerW' = layerW /\ layerH' = layerH
              /\ left' = left + dx
              /\ Abs(dx') = Abs(dx)
              /\ Cardinality(pending') = 1
              /\ (dx' = dx /\ goingDown' = goingDown) => top' = top
              /\ (dx' = dx /\ goingDown' # goingDown)
                   => top' = (IF goingDown THEN winH' - layerH' ELSE 0)
         ELSE UNCHANGED <<left, top, dx, goingDown, layerW, layerH,
                          animationId, pending>>]_vars

(* a resize during a run has moved the layer on, away from the walls *)
C7_Witness ==
  /\ lastOp = "resize" /\ Running /\ dx = Speed /\ left = 2 * Speed
  /\ left + layerW < winW

----------------------------------------------------------------------------
(* C8 as stated: when start returns the motion state is the reset state    *)
(* and one call of moveLayer is pending.                                   *)
C8_StartIsReset ==
  lastOp = "start" =>
    /\ left = StartLeft /\ top = StartTop /\ dx = Speed /\ goingDown
    /\ Cardinality(pending) = 1

(* C8 amended: when start returns, moveLayer has already run once on the   *)
(* reset state ((0,150), +speed, descending) and exactly one further call  *)
(* is pending: x = 0 + speed, and velocity, y and phase are the reset ones *)
(* unless that first step met the right wall or the bottom.                *)
C8_StartHasStepped ==
  lastOp = "start" =>
    LET refl   == StartLeft + Speed + layerW >= winW
        y      == StartTop + (IF refl THEN layerH ELSE 0)
        bottom == y + layerH >= winH
    IN  /\ left = StartLeft + Speed
        /\ dx = (IF refl THEN -Speed ELSE Speed)
        /\ goingDown = ~bottom
        /\ top = (IF bottom THEN winH - layerH ELSE y)
        /\ pending = {animationId} /\ Running

(* start has returned in a window the first step does not touch *)
C8_Witness ==
  /\ lastOp = "start" /\ left = Speed /\ top = StartTop /\ dx = Speed
  /\ goingDown /\ Cardinality(pending) = 1

----------------------------------------------------------------------------
(* C9: after start the width and height are the parsed inputs when         *)
(* positive and 150 / 100 otherwise, and the opacity in effect is the      *)
(* parsed input when within 0..1 (0 included) and 1 otherwise.             *)
expectedSize(v, d) == IF ~v.nan /\ v.num > 0 THEN v.num ELSE d
expectedOpacity(v) ==
  IF ~v.nan /\ 0 <= v.num /\ v.num <= v.den THEN v ELSE Num(DefaultOpacity)
(* the opacity a style value has in effect: clamped to 0..1 *)
usedOpacity(v) ==
  IF v.num < 0 THEN Num(0) ELSE IF v.num > v.den THEN Num(1) ELSE v

C9_ConfigDefaults ==
  lastOp = "start" =>
    /\ layerW = expectedSize(parseInt(widthInput), DefaultWidth)
    /\ layerH = expectedSize(parseInt(heightInput), DefaultHeight)
    /\ usedOpacity(opacity) = expectedOpacity(parseFloat(opacityInput))

----------------------------------------------------------------------------
(* The corner scenario of the specification: 150x100 in 800x600 at        *)
(* y = 150, dx = +3, descending; the frame from x = 648 meets the right    *)
(* wall and gives dx = -3, y = 250, still descending.                      *)
C10_Example ==
  Step(648, StartTop, DefaultWidth, DefaultHeight, Speed, 0, TRUE, 800, 600)
    = [left |-> 651, top |-> 250, dx |-> -Speed, goingDown |-> TRUE]

(* C10: an execution of moveLayer negates dx exactly when it moves right   *)
(* with x + dx + width >= winW or left with x + dx <= 0, and |dx| is the   *)
(* start speed throughout; in exactly those executions y is first shifted  *)
(* by +height when descending and -height when ascending; otherwise dx is  *)
(* kept, and y then changes only by the vertical clamp, which turns the    *)
(* phase.  The corner scenario evaluates as the specification states.      *)
C10_Reflection ==
  [][Stepping =>
       LET x    == PreLeft + PreDx
           refl == \/ (PreDx > 0 /\ x + layerW' >= winW')
                   \/ (PreDx < 0 /\ x <= 0)
           y    == IF refl
                     THEN (IF PreGoingDown THEN PreTop + layerH'
                                           ELSE PreTop - layerH')
                     ELSE PreTop
       IN  /\ C10_Example
           /\ Abs(dx') = Speed
           /\ (dx' = -PreDx) <=> refl
           /\ ~refl => dx' = PreDx
           /\ goingDown' = PreGoingDown => top' = y
           /\ goingDown' # PreGoingDown
                => top' = (IF PreGoingDown THEN winH' - layerH' ELSE 0)]_vars

(* a frame has just reflected at the left wall while ascending, without    *)
(* reaching the top                                                        *)
C10_Witness ==
  /\ lastOp = "frame" /\ dx = Speed /\ left <= 0 /\ ~goingDown
  /\ toggles = 0 /\ top > 0

----------------------------------------------------------------------------
(* An execution of moveLayer that meets a wall: the test of lines 46-49 on *)
(* the tentative x.                                                        *)
PreReflects ==
  \/ (PreDx > 0 /\ PreLeft + PreDx + layerW' >= winW')
  \/ (PreDx < 0 /\ PreLeft + PreDx <= 0)

(* C11 as stated: an execution of moveLayer that meets a wall publishes    *)
(* the x from before the step; only the others publish x + dx.             *)
C11_NoReposition ==
  [][Stepping =>
       left' = (IF PreReflects THEN PreLeft ELSE PreLeft + PreDx)]_vars

(* C11 amended: every execution of moveLayer publishes the tentative       *)
(* x + dx, the reflecting ones included; reflection changes only the sign  *)
(* of dx (and shifts y), so the layer may stand up to |dx| past the wall   *)
(* on the reflecting frame.                                                *)
C11_AlwaysRepositions ==
  [][Stepping =>
       /\ left' = PreLeft + PreDx
       /\ PreReflects => dx' = -PreDx]_vars

(* a frame has just reflected at the right wall of a window wider than the *)
(* layer, and published the tentative x, which touches or passes the wall  *)
C11_Witness ==
  /\ lastOp = "frame" /\ dx = -Speed /\ winW > layerW /\ left > Speed
  /\ left + layerW >= winW /\ left + layerW < winW + Speed

----------------------------------------------------------------------------
NonDegenerate == winW > layerW /\ winH > layerH
AtBottom == ~goingDown /\ top = winH - layerH
AtTop == goingDown /\ top = 0

(* C12: in a run whose window is fixed and larger than the layer and whose *)
(* frame ticks keep firing, the layer eventually reaches the bottom        *)
(* (y = winH - height, ascending from there), from the bottom eventually   *)
(* the top (y = 0, descending from there), from the top the bottom again,  *)
(* for ever; and dx changes sign again and again.                          *)
C12_Sweep ==
  /\ (Running /\ NonDegenerate) ~> AtBottom
  /\ (Running /\ NonDegenerate /\ AtBottom) ~> AtTop
  /\ (Running /\ NonDegenerate /\ AtTop) ~> AtBottom
  /\ (Running /\ NonDegenerate /\ dx = Speed) ~> (dx = -Speed)
  /\ (Running /\ NonDegenerate /\ dx = -Speed) ~> (dx = Speed)

(* a frame has just brought the layer back to the top, from the bottom, in *)
(* a window larger than the layer                                          *)
C12_Witness ==
  /\ lastOp = "frame" /\ NonDegenerate /\ AtTop /\ toggles = 1

----------------------------------------------------------------------------
(* C13: between handlers exactly one frame callback is pending if start    *)
(* has ever been called and none otherwise: the animation is running       *)
(* (animationId set) from the first start on and never before, a running   *)
(* animation always has its one callback pending, and a resize before the  *)
(* first start schedules nothing and changes no state but the window's     *)
(* size.                                                                   *)
C13_Lifecycle ==
  /\ [](Cardinality(pending) = (IF Running THEN 1 ELSE 0))
  /\ [](lastOp \in {"start", "frame"} => Running)
  /\ [][/\ Running => Running'
        /\ lastOp' = "start" => Running'
        /\ (~Running /\ Running') => lastOp' = "start"
        /\ (~Running /\ lastOp' = "resize")
             => UNCHANGED <<left, top, layerW, layerH, opacity, dx, dy,
                            goingDown, animationId, pending,
                            widthInput, heightInput, opacityInput>>]_vars

(* the window has been resized before the first start: nothing is pending *)
C13_Witness ==
  lastOp = "resize" /\ ~Running /\ pending = {} /\ left = StartLeft

----------------------------------------------------------------------------
RECURSIVE Count(_, _)
Count(v, a) ==
  IF a = <<>> THEN 0 ELSE (IF Head(a) = v THEN 1 ELSE 0) + Count(v, Tail(a))

Ascending(a) == \A k \in 1..(Len(a) - 1) : a[k] <= a[k + 1]

(* a holds exactly the elements of b that are in S, as often as b does *)
HoldsExactly(a, b, S) ==
  /\ \A k \in 1..Len(a) : a[k] \in S
  /\ \A k \in 1..Len(b) : b[k] \in S => Count(b[k], a) = Count(b[k], b)

Negatives == { v \in Int : v < 0 }
NonNegatives == { v \in Int : v >= 0 }

PartitionedAndSorted ==
  /\ Len(sortCall.result) = 2
  /\ HoldsExactly(sortCall.result[1], sortCall.input, Negatives)
  /\ HoldsExactly(sortCall.result[2], sortCall.input, NonNegatives)
  /\ Ascending(sortCall.result[1])
  /\ Ascending(sortCall.result[2])

(* C14: for every non-empty table, table_sort2 ends without an index error *)
(* and returns the negative elements and the non-negative elements of its  *)
(* input, each ascending, together a permutation of the input.             *)
C14_Partition ==
  (sortCall.pc # "none" /\ Len(sortCall.input) > 0) =>
    /\ sortCall.pc # "thrown"
    /\ sortCall.pc = "returned" => PartitionedAndSorted

====
